---- MODULE Spec2Model ----
(***************************************************************************)
(* Model of ytdl.py: a command-line front end that turns download options  *)
(* into a yt-dlp configuration (build_opts), reports progress              *)
(* (progress_hook), and runs the download and prints a summary (main).     *)
(*                                                                         *)
(* Conventions.                                                            *)
(*  - A Python value that may be None is a sequence of length 0 (None) or  *)
(*    1 (the value): None == <<>>, Some(v) == <<v>>.                       *)
(*  - A Python dict is a function whose domain is its set of keys.         *)
(*  - A path is the sequence of its components; an absolute path starts    *)
(*    with the component "/", any other path is relative to Cwd.  The file *)
(*    system holds resolved absolute paths (there are no symbolic links).  *)
(*  - Text that goes through progress_hook is a sequence of Unicode code    *)
(*    points (so that strip() and the alignment can be computed); the      *)
(*    other texts the program prints are strings.                          *)
(***************************************************************************)
EXTENDS Integers, Sequences, FiniteSets, TLC

VARIABLES
    pc,          \* position of the process in main / its final state
    argv,        \* the command line (what was given, before defaults)
    args,        \* the Namespace returned by parse_args
    fs,          \* file system: [dirs |-> set of paths, files |-> set of paths]
    ydl_opts,    \* the dict returned by build_opts
    info,        \* what extract_info returned (None or a dict)
    stdout,      \* sequence of texts written to standard output
    stderr,      \* sequence of texts written to standard error
    summary,     \* the texts printed by the summary section of main
    exitStatus,  \* None while running, Some(status) once the process ended
    engineCalls, \* number of extract_info calls in this run
    prepCalls,   \* number of prepare_filename calls in this run
    hookCalls,   \* number of progress_hook calls in this run
    hookRaised,  \* TRUE once a progress_hook call raised
    event,       \* the last event passed to progress_hook (None if none yet)
    outcome,     \* how extract_info ended: [kind, msg, code], kind "none"
                 \* before that, "returned", or the class of the exception
                 \* raised (code is the status a SystemExit carries)
    run,         \* how many times the program has been started
    mkdirLog     \* one record per executed mkdir step, over all runs

vars == <<pc, argv, args, fs, ydl_opts, info, stdout, stderr, summary,
          exitStatus, engineCalls, prepCalls, hookCalls, hookRaised, event,
          outcome, run, mkdirLog>>

None == <<>>
Some(v) == <<v>>

----------------------------------------------------------------------------
(* Bounds of the model *)

MaxEntries == 3      \* longest playlist the engine returns
MaxHookCalls == 2    \* progress events delivered per engine call
MaxRuns == 2         \* times the program is started on the same file system
MaxPad == 2          \* most blanks around a display string of the engine

----------------------------------------------------------------------------
(* Python built-ins used by the program *)

Digit(n) == CASE n = 0 -> "0" [] n = 1 -> "1" [] n = 2 -> "2" [] n = 3 -> "3"
              [] n = 4 -> "4" [] n = 5 -> "5" [] n = 6 -> "6" [] n = 7 -> "7"
              [] n = 8 -> "8" [] n = 9 -> "9"

RECURSIVE NatStr(_)
NatStr(n) == IF n < 10 THEN Digit(n) ELSE NatStr(n \div 10) \o Digit(n % 10)

\* str(n) for an int n
IntStr(n) == IF n < 0 THEN "-" \o NatStr(0 - n) ELSE NatStr(n)

\* truth value of an int-or-None, as tested by "if x:"
TruthyInt(x) == x # None /\ x[1] # 0

\* truth value of a dict-or-None, as tested by "if e:"
TruthyDict(e) == e # None /\ DOMAIN e[1] # {}

\* d.get(k, default) for a dict d
Get(d, k, default) == IF k \in DOMAIN d THEN d[k] ELSE default

\* c.isspace() for a code point c: the characters str.strip() removes
IsSpace(c) == c \in (9..13) \cup (28..32) \cup {133, 160, 5760}
                    \cup (8192..8202) \cup {8232, 8233, 8239, 8287, 12288}

RECURSIVE LStrip(_)
LStrip(s) == IF s # <<>> /\ IsSpace(Head(s)) THEN LStrip(Tail(s)) ELSE s

RECURSIVE RStrip(_)
RStrip(s) == IF s # <<>> /\ IsSpace(s[Len(s)])
             THEN RStrip(SubSeq(s, 1, Len(s) - 1)) ELSE s

\* s.strip() for a text s
Strip(s) == RStrip(LStrip(s))

RECURSIVE Spaces(_)
\* n blanks (none for n <= 0)
Spaces(n) == IF n <= 0 THEN <<>> ELSE <<32>> \o Spaces(n - 1)

\* f"{s:>w}": s right-aligned in a field of width w, never truncated
RightAlign(s, w) == Spaces(w - Len(s)) \o s

----------------------------------------------------------------------------
(* Paths and the file system *)

\* the home directory of the environment (HOME) and those of the users of
\* the password database
Home == <<"/", "home", "u">>
RootHome == <<"/", "root">>
TildeHomes == [c \in {"~", "~u", "~root"} |->
                 IF c = "~root" THEN RootHome ELSE Home]

\* os.path.expanduser: a first component "~" or "~user" of a known user is
\* replaced by the home directory, any other path is left as it is
expanduser(p) == IF p # <<>> /\ p[1] \in DOMAIN TildeHomes
                   THEN TildeHomes[p[1]] \o Tail(p) ELSE p

\* os.path.join(a, b): an absolute b discards a
PathJoin(a, b) == IF b # <<>> /\ b[1] = "/" THEN b ELSE a \o b

\* pathlib.Path(p): "." components are dropped
Path(p) == SelectSeq(p, LAMBDA c : c # ".")

\* the lexical parent, as pathlib computes it: "/" and "." are their own
\* parents
Parent(p) == IF p = <<"/">> THEN p ELSE SubSeq(p, 1, Len(p) - 1)

\* Path(p).parent == Path(p): the path is "." or "/"
IsRoot(p) == p = <<>> \/ p = <<"/">>

\* Path(p) is absolute
IsAbsolute(p) == p # <<>> /\ p[1] = "/"

\* Path(p) and Path(p).parents: down to "/" for an absolute path, down to
\* "." for a relative one
Prefixes(p) == {SubSeq(p, 1, n) : n \in (IF IsAbsolute(p) THEN 1 ELSE 0)..Len(p)}

\* the working directory of the process
Cwd == <<"/", "work">>

RECURSIVE Canon(_)
\* the file the kernel reaches by the path p: "." stays, ".." goes up (the
\* root is its own parent)
Canon(p) ==
    IF p = <<>> THEN Cwd
    ELSE IF p = <<"/">> THEN p
    ELSE LET base == Canon(Parent(p))
             c == p[Len(p)]
         IN IF c = "." THEN base
            ELSE IF c = ".." THEN (IF base = <<"/">> THEN base ELSE Parent(base))
            ELSE Append(base, c)

\* a resolved path and the directories above it
Ancestors(q) == {SubSeq(q, 1, n) : n \in 1..Len(q)}

\* the error of the path walk of a system call: every component is looked
\* up in a directory; a regular file in that place gives ENOTDIR, nothing
\* there ENOENT
WalkError(f, p) ==
    LET bad == {n \in 0..(Len(p) - 1) :
                   /\ SubSeq(p, 1, n) \in Prefixes(p)
                   /\ Canon(SubSeq(p, 1, n)) \notin f.dirs}
    IN IF bad = {} THEN "none"
       ELSE LET n == CHOOSE m \in bad : \A k \in bad : m <= k IN
            IF Canon(SubSeq(p, 1, n)) \in f.files THEN "NotADirectoryError"
                                                  ELSE "FileNotFoundError"

\* os.mkdir(p): the exception it raises ("none" if the directory is created)
OsMkdirError(f, p) ==
    IF WalkError(f, p) # "none" THEN WalkError(f, p)
    ELSE IF Canon(p) \in f.dirs \/ Canon(p) \in f.files THEN "FileExistsError"
    ELSE "none"

\* Path(p).is_dir(): FALSE also when the path cannot be resolved
IsDir(f, p) == WalkError(f, p) = "none" /\ Canon(p) \in f.dirs

RECURSIVE PathMkdir(_, _, _, _)
\* pathlib.Path.mkdir(parents, exist_ok): the file system afterwards and the
\* exception raised ("none" if it returned)
PathMkdir(f, p, parents, exist_ok) ==
    LET err == OsMkdirError(f, p) IN
    IF err = "none"
      THEN [fs |-> [f EXCEPT !.dirs = @ \cup {Canon(p)}], raised |-> "none"]
    ELSE IF err = "FileNotFoundError"
      THEN IF ~parents \/ IsRoot(p)
             THEN [fs |-> f, raised |-> err]
             ELSE LET up == PathMkdir(f, Parent(p), TRUE, TRUE) IN
                  IF up.raised # "none" THEN up
                  ELSE PathMkdir(up.fs, p, FALSE, exist_ok)
    ELSE IF ~exist_ok \/ ~IsDir(f, p)
      THEN [fs |-> f, raised |-> err]
      ELSE [fs |-> f, raised |-> "none"]

\* main, lines 138-139: the mkdir with exist_ok dropped
EnsureOutputDirNoExistOk(f, a) ==
    PathMkdir(f, Path(expanduser(a.output)), TRUE, FALSE)

\* main, lines 138-139
EnsureOutputDir(f, a) ==
    PathMkdir(f, Path(expanduser(a.output)), TRUE, TRUE)

----------------------------------------------------------------------------
(* parse_args *)

AudioFormatChoices == {"mp3", "m4a", "aac", "opus", "vorbis", "wav", "flac"}

DefaultOutput == <<".", "downloads">>
DefaultTemplate == <<"%(title)s.%(ext)s">>
DefaultAudioFormat == "mp3"
DefaultAudioQuality == 0
DefaultRetries == 5
DefaultTimeout == 30
DefaultConcurrent == 4

\* value of an option with a default
OrDefault(given, default) == IF given = None THEN default ELSE given[1]

\* argparse rejects the command line (it prints usage and exits with 2)
ParseError(v) ==
    \/ v.audio /\ v.video
    \/ v.audio_format # None /\ v.audio_format[1] \notin AudioFormatChoices

\* the Namespace parse_args returns for an accepted command line
parse_args(v) ==
    [ url            |-> v.url,
      output         |-> OrDefault(v.output, DefaultOutput),
      template       |-> OrDefault(v.template, DefaultTemplate),
      quiet          |-> v.quiet,
      audio          |-> v.audio,
      video          |-> v.video,
      audio_format   |-> OrDefault(v.audio_format, DefaultAudioFormat),
      audio_quality  |-> OrDefault(v.audio_quality, DefaultAudioQuality),
      resolution     |-> v.resolution,
      allow_playlist |-> v.allow_playlist,
      safe_names     |-> v.safe_names,
      ignore_errors  |-> v.ignore_errors,
      embed_meta     |-> v.embed_meta,
      embed_thumb    |-> v.embed_thumb,
      retries        |-> OrDefault(v.retries, DefaultRetries),
      timeout        |-> OrDefault(v.timeout, DefaultTimeout),
      concurrent     |-> OrDefault(v.concurrent, DefaultConcurrent) ]

----------------------------------------------------------------------------
(* build_opts *)

\* lines 47-57 with the certificate check following a flag
BaseOptsCertByFlag(a) ==
    [ outtmpl |-> [default |-> PathJoin(expanduser(a.output), a.template)],
      noplaylist |-> ~a.allow_playlist,
      nocheckcertificate |-> a.quiet,
      progress_hooks |-> <<"progress_hook">>,
      restrictfilenames |-> a.safe_names,
      ignoreerrors |-> a.ignore_errors,
      concurrent_fragment_downloads |-> a.concurrent,
      quiet |-> a.quiet,
      no_warnings |-> a.quiet ]

\* lines 44-57: the options common to both modes
BaseOpts(a) ==
    [ outtmpl |-> [default |-> PathJoin(expanduser(a.output), a.template)],
      noplaylist |-> ~a.allow_playlist,
      nocheckcertificate |-> TRUE,
      progress_hooks |-> <<"progress_hook">>,
      restrictfilenames |-> a.safe_names,
      ignoreerrors |-> a.ignore_errors,
      concurrent_fragment_downloads |-> a.concurrent,
      quiet |-> a.quiet,
      no_warnings |-> a.quiet ]

FFmpegExtractAudio(codec, quality) ==
    [key |-> "FFmpegExtractAudio", preferredcodec |-> codec,
     preferredquality |-> quality]
FFmpegMetadata == [key |-> "FFmpegMetadata"]
EmbedThumbnail == [key |-> "EmbedThumbnail"]

\* lines 63-72 with the thumbnail step appended before the metadata step
AudioPostThumbFirst(a) ==
    <<FFmpegExtractAudio(a.audio_format, IntStr(a.audio_quality))>>
    \o (IF a.embed_thumb THEN <<EmbedThumbnail>> ELSE <<>>)
    \o (IF a.embed_meta THEN <<FFmpegMetadata>> ELSE <<>>)

\* lines 63-72: the post-processing list of audio mode
AudioPost(a) ==
    <<FFmpegExtractAudio(a.audio_format, IntStr(a.audio_quality))>>
    \o (IF a.embed_meta THEN <<FFmpegMetadata>> ELSE <<>>)
    \o (IF a.embed_thumb THEN <<EmbedThumbnail>> ELSE <<>>)

\* lines 60-73 with the resolution honoured in audio mode too
AudioBranchWithCap(a) ==
    [ format |-> IF TruthyInt(a.resolution)
                   THEN "bestaudio[height<=" \o IntStr(a.resolution[1]) \o "]/best"
                   ELSE "bestaudio/best",
      merge_output_format |-> "mp4",
      postprocessors |-> AudioPost(a) ]

\* lines 60-73: the keys the audio branch adds
AudioBranch(a) ==
    [ format |-> "bestaudio/best",
      postprocessors |-> AudioPost(a) ]

\* lines 77-81: the format expression of video mode
VideoFormat(a) ==
    IF TruthyInt(a.resolution)
      THEN "bestvideo[ext=mp4][height<=" \o IntStr(a.resolution[1])
           \o "]+bestaudio[ext=m4a]/best[ext=mp4]/best"
      ELSE "bestvideo[ext=mp4]+bestaudio[ext=m4a]/best[ext=mp4]/best"

\* lines 87-90: opts.setdefault("postprocessors", []).append(...), twice;
\* the key is only created when one of the flags is set
VideoPost(a) ==
    LET o1 == IF a.embed_meta
                THEN [postprocessors |-> <<FFmpegMetadata>>] ELSE <<>>
        o2 == IF a.embed_thumb
                THEN [postprocessors |->
                        Get(o1, "postprocessors", <<>>) \o <<EmbedThumbnail>>]
                ELSE o1
    IN o2

\* lines 74-90: the keys the video branch adds
VideoBranch(a) ==
    [ format |-> VideoFormat(a),
      merge_output_format |-> "mp4" ] @@ VideoPost(a)

\* lines 93-98 with the fragment retries left at a fixed value
ResilienceFixedFragment(a) ==
    [ retries |-> a.retries,
      file_access_retries |-> a.retries,
      fragment_retries |-> DefaultRetries,
      socket_timeout |-> a.timeout ]

\* lines 93-98: opts.update({...})
Resilience(a) ==
    [ retries |-> a.retries,
      file_access_retries |-> a.retries,
      fragment_retries |-> a.retries,
      socket_timeout |-> a.timeout ]

\* lines 42-100
build_opts(a) ==
    Resilience(a)
    @@ (IF a.audio THEN AudioBranch(a) ELSE VideoBranch(a))
    @@ BaseOpts(a)

----------------------------------------------------------------------------
(* progress_hook *)

\* "\rDownloading: "
DownloadingText == <<13, 68, 111, 119, 110, 108, 111, 97, 100, 105, 110, 103,
                     58, 32>>
\* "  Speed: "
SpeedText == <<32, 32, 83, 112, 101, 101, 100, 58, 32>>
\* "  ETA: "
EtaText == <<32, 32, 69, 84, 65, 58, 32>>
\* "\nDownload finished, post-processing..." and the newline of print
FinishedText == <<10, 68, 111, 119, 110, 108, 111, 97, 100, 32, 102, 105, 110,
                  105, 115, 104, 101, 100, 44, 32, 112, 111, 115, 116, 45,
                  112, 114, 111, 99, 101, 115, 115, 105, 110, 103, 46, 46,
                  46, 10>>

\* lines 33-35: d.get(key, '').strip(); calling strip on None raises
\* AttributeError
StripField(d, key) ==
    LET v == Get(d, key, Some(<<>>)) IN
    IF v = None THEN [raised |-> TRUE, text |-> <<>>]
                ELSE [raised |-> FALSE, text |-> Strip(v[1])]

\* lines 31-39: whether the call raised, and the texts it printed
progress_hook(d) ==
    LET status == Get(d, "status", None) IN
    IF status = Some("downloading")
      THEN LET pct == StripField(d, "_percent_str")
               spd == StripField(d, "_speed_str")
               eta == StripField(d, "_eta_str")
           IN IF pct.raised \/ spd.raised \/ eta.raised
                THEN [raised |-> TRUE, out |-> <<>>]
                ELSE [raised |-> FALSE,
                      out |-> << DownloadingText \o RightAlign(pct.text, 6)
                                 \o SpeedText \o RightAlign(spd.text, 8)
                                 \o EtaText \o RightAlign(eta.text, 6) >>]
    ELSE IF status = Some("finished")
      THEN [raised |-> FALSE, out |-> <<FinishedText>>]
    ELSE [raised |-> FALSE, out |-> <<>>]

----------------------------------------------------------------------------
(* The summary section of main *)

\* ydl.prepare_filename(entry): the path the engine resolves for an entry
prepare_filename(entry) == "downloads/" \o Get(entry, "id", "NA") \o ".mp4"

\* lines 157-160
summarize(entry) ==
    "Saved: " \o Get(entry, "title", "Unknown Title")
    \o "\n -> " \o prepare_filename(entry)

RECURSIVE PrintEntriesAll(_)
\* lines 166-168 without the test of the entry
PrintEntriesAll(es) ==
    IF es = <<>> THEN <<>>
    ELSE <<(IF Head(es) = None THEN "Saved: None" ELSE summarize(Head(es)[1]))
           \o "\n">>
         \o PrintEntriesAll(Tail(es))

RECURSIVE PrintEntries(_)
\* lines 166-168: one print per entry that is true
PrintEntries(es) ==
    IF es = <<>> THEN <<>>
    ELSE (IF TruthyDict(Head(es)) THEN <<summarize(Head(es)[1]) \o "\n">>
                                  ELSE <<>>)
         \o PrintEntries(Tail(es))

IsPlaylist(d) == "_type" \in DOMAIN d /\ d["_type"] = "playlist"

\* lines 162-170: the texts printed for a result
PrintSummary(res) ==
    IF res = None THEN <<"Nothing was downloaded.\n">>
    ELSE IF IsPlaylist(res[1])
      THEN <<"\nPlaylist: " \o Get(res[1], "title", "(unknown)") \o "\n">>
           \o PrintEntries(Get(res[1], "entries", <<>>))
    ELSE <<"\n" \o summarize(res[1]) \o "\n">>

\* number of prepare_filename calls (one per summarize) lines 162-170 make
SummarizeCalls(res) ==
    IF res = None THEN 0
    ELSE IF IsPlaylist(res[1])
      THEN Len(PrintEntries(Get(res[1], "entries", <<>>)))
    ELSE 1

----------------------------------------------------------------------------
(* Inputs *)

Optional(S) == {None} \cup {Some(x) : x \in S}

\* the flags and options the default command line leaves unset
PlainArgv ==
    [ url |-> "https://youtu.be/x", output |-> None, template |-> None,
      quiet |-> FALSE, audio |-> FALSE, video |-> FALSE,
      audio_format |-> None, audio_quality |-> None, resolution |-> None,
      allow_playlist |-> FALSE, safe_names |-> FALSE, ignore_errors |-> FALSE,
      embed_meta |-> FALSE, embed_thumb |-> FALSE,
      retries |-> None, timeout |-> None, concurrent |-> None ]

OutputChoices == {None, Some(<<"~", "Music", "yt", "..", "deep">>)}
TemplateChoices == {None, Some(<<"/", "tmp", "%(title)s.%(ext)s">>)}

\* command lines for the configuration synthesis
BuildArgvs ==
    { [ PlainArgv EXCEPT
          !.output = o, !.template = t, !.quiet = q, !.audio = au,
          !.video = vi,
          !.audio_format = af, !.audio_quality = aq, !.resolution = r,
          !.ignore_errors = ie, !.embed_meta = em, !.embed_thumb = et,
          !.retries = re, !.timeout = ti ] :
        o \in OutputChoices \cup {Some(<<"~root", "yt">>), Some(<<"~nobody">>)},
        t \in TemplateChoices,
        q \in BOOLEAN, au \in BOOLEAN, vi \in BOOLEAN,
        af \in Optional({"flac", "m4a", "ogg"}), aq \in Optional({0, 5, 128}),
        r \in Optional({0 - 1, 0, 720, 1080}),
        ie \in BOOLEAN, em \in BOOLEAN, et \in BOOLEAN,
        re \in Optional({0, 10}), ti \in Optional({10}) }

\* command lines for the runs of main
MainArgvs ==
    { [ PlainArgv EXCEPT !.output = o, !.audio = au, !.video = vi ] :
        o \in OutputChoices, au \in BOOLEAN, vi \in BOOLEAN }

\* the paths the runs can touch, and the file systems they can start from:
\* the working directory and the home directories exist, every directory
\* has its parent, and a file sits in a directory
Downloads == Cwd \o <<"downloads">>
Music == Home \o <<"Music">>
MusicYt == Music \o <<"yt">>
MusicDeep == Music \o <<"deep">>
FixedDirs == Ancestors(Home) \cup Ancestors(RootHome) \cup Ancestors(Cwd)
EmptyFs == [dirs |-> FixedDirs, files |-> {}]
InitialFs ==
    { [dirs |-> FixedDirs \cup d, files |-> f] :
        d \in SUBSET {Downloads, Music, MusicYt, MusicDeep},
        f \in SUBSET {Downloads, Music, MusicYt, MusicDeep} }
FsOk(f) ==
    /\ f.dirs \cap f.files = {}
    /\ \A p \in f.dirs \cup f.files : p = <<"/">> \/ Parent(p) \in f.dirs

\* display strings of the engine: a core with blanks in front and nothing
\* or a form feed and an en quad (U+2000) behind
Padded(core) == {Spaces(l) \o core \o r : l \in 0..MaxPad, r \in {<<>>, <<12, 8192>>}}
\* "45.2%"
PercentTexts == Padded(<<52, 53, 46, 50, 37>>)
\* "Unknown B/s"
SpeedTexts == Padded(<<85, 110, 107, 110, 111, 119, 110, 32, 66, 47, 115>>)
EtaTexts == Padded(<<>>)

Field(key, texts) ==
    {<<>>} \cup {key :> v : v \in Optional(texts)}

\* every event: each key missing, None, or a value
ProgressEvents ==
    { s @@ p @@ sp @@ e :
        s \in Field("status", {"downloading", "finished", "error"}),
        p \in Field("_percent_str", PercentTexts),
        sp \in Field("_speed_str", SpeedTexts),
        e \in Field("_eta_str", EtaTexts) }

\* the events delivered during the runs of main
MainEvents ==
    { [status |-> Some("downloading"),
       _percent_str |-> Some(<<32, 52, 53, 46, 50, 37>>),
       _speed_str |-> Some(<<49, 46, 50, 77, 105, 66, 47, 115>>),
       _eta_str |-> Some(<<48, 48, 58, 51, 48, 12>>)],
      [status |-> Some("downloading"), _percent_str |-> None],
      [status |-> Some("finished")] }

\* the results of extract_info
Items == { None, Some([id |-> "a", title |-> "T1"]), Some([id |-> "b"]) }
RECURSIVE SeqsUpTo(_, _)
SeqsUpTo(S, n) ==
    IF n = 0 THEN {<<>>}
    ELSE LET shorter == SeqsUpTo(S, n - 1) IN
         shorter \cup {Append(q, x) : q \in {y \in shorter : Len(y) = n - 1},
                                      x \in S}
Titled(d) == {d, d @@ [title |-> "Mix"]}
Results ==
    {None}
    \cup {Some(d) : d \in Titled([id |-> "v"]) \cup Titled([id |-> "v", _type |-> "video"])}
    \cup {Some(d) : d \in Titled([_type |-> "playlist"])}
    \cup {Some(d @@ [entries |-> es]) :
            d \in Titled([_type |-> "playlist"]), es \in SeqsUpTo(Items, MaxEntries)}

ErrorMessages == {"Video unavailable", ""}

\* what can come out of extract_info: DownloadError, another Exception, or
\* an exception outside the Exception hierarchy (Ctrl-C, sys.exit, ...)
EngineExceptions ==
    {[kind |-> k, msg |-> m, code |-> 0] :
        k \in {"DownloadError", "ValueError", "KeyboardInterrupt",
               "GeneratorExit", "BaseException"},
        m \in ErrorMessages}
    \cup {[kind |-> "SystemExit", msg |-> "", code |-> c] :
            c \in {0 - 1, 0, 3, 256}}

----------------------------------------------------------------------------
(* Initial states *)

NoOutcome == [kind |-> "none", msg |-> "", code |-> 0]
Returned == [kind |-> "returned", msg |-> "", code |-> 0]

Fresh ==
    /\ pc = "start"
    /\ args = None
    /\ ydl_opts = None
    /\ info = None
    /\ stdout = <<>>
    /\ stderr = <<>>
    /\ summary = <<>>
    /\ exitStatus = None
    /\ engineCalls = 0
    /\ prepCalls = 0
    /\ hookCalls = 0
    /\ hookRaised = FALSE
    /\ event = None
    /\ outcome = NoOutcome

\* a run of main on any command line and file system
Init ==
    /\ Fresh
    /\ argv \in MainArgvs
    /\ fs \in {f \in InitialFs : FsOk(f)}
    /\ run = 1
    /\ mkdirLog = <<>>

\* the configuration synthesis on every command line
InitBuild ==
    /\ Fresh
    /\ argv \in BuildArgvs
    /\ fs = EmptyFs
    /\ run = 1
    /\ mkdirLog = <<>>

\* the engine calling progress_hook
InitHook ==
    /\ Fresh
    /\ argv = PlainArgv
    /\ fs = EmptyFs
    /\ run = 1
    /\ mkdirLog = <<>>

----------------------------------------------------------------------------
(* The steps of main *)

\* the process ends with the given status
Exit(status) ==
    /\ pc' = "exited"
    /\ exitStatus' = Some(status)

\* line 135: parse_args; argparse exits with 2 on a rejected command line
ParseArgs ==
    /\ pc = "start"
    /\ IF ParseError(argv)
         THEN /\ Exit(2)
              /\ stderr' = Append(stderr, "usage")
              /\ args' = args
         ELSE /\ pc' = "mkdir"
              /\ args' = Some(parse_args(argv))
              /\ UNCHANGED <<exitStatus, stderr>>
    /\ UNCHANGED <<argv, fs, ydl_opts, info, stdout, summary, engineCalls,
                   prepCalls, hookCalls, hookRaised, event, outcome, run,
                   mkdirLog>>

\* lines 138-139: an exception of mkdir is not caught, the process ends with
\* a traceback and status 1
EnsureDir ==
    /\ pc = "mkdir"
    /\ LET r == EnsureOutputDir(fs, args[1]) IN
       /\ fs' = r.fs
       /\ mkdirLog' = Append(mkdirLog,
              [run |-> run, path |-> Path(expanduser(args[1].output)),
               before |-> fs, after |-> r.fs, raised |-> r.raised])
       /\ IF r.raised = "none"
            THEN /\ pc' = "build"
                 /\ UNCHANGED <<exitStatus, stderr>>
            ELSE /\ Exit(1)
                 /\ stderr' = Append(stderr, "Traceback: " \o r.raised)
    /\ UNCHANGED <<argv, args, ydl_opts, info, stdout, summary, engineCalls,
                   prepCalls, hookCalls, hookRaised, event, outcome, run>>

\* line 142
BuildOpts ==
    /\ pc = "build"
    /\ ydl_opts' = Some(build_opts(args[1]))
    /\ pc' = "engine"
    /\ UNCHANGED <<argv, args, fs, info, stdout, stderr, summary, exitStatus,
                   engineCalls, prepCalls, hookCalls, hookRaised, event,
                   outcome, run, mkdirLog>>

\* lines 146-147: the call of extract_info starts
CallEngine ==
    /\ pc = "engine"
    /\ engineCalls' = engineCalls + 1
    /\ pc' = "in_engine"
    /\ UNCHANGED <<argv, args, fs, ydl_opts, info, stdout, stderr, summary,
                   exitStatus, prepCalls, hookCalls, hookRaised, event,
                   outcome, run, mkdirLog>>

\* lines 148-150 with the call tried again instead of the exit
OnDownloadErrorRetry(msg) ==
    /\ stderr' = Append(stderr, "\nDownloadError: " \o msg \o "\n")
    /\ pc' = "engine"
    /\ UNCHANGED exitStatus

\* lines 148-150: except yt_dlp.utils.DownloadError
OnDownloadError(msg) ==
    /\ stderr' = Append(stderr, "\nDownloadError: " \o msg \o "\n")
    /\ Exit(1)

\* lines 151-153: except Exception
OnException(msg) ==
    /\ stderr' = Append(stderr, "\nUnexpected error: " \o msg \o "\n")
    /\ Exit(1)

\* the classes an exception class derives from
Bases ==
    [ DownloadError |-> {"YoutubeDLError", "Exception", "BaseException"},
      ValueError |-> {"Exception", "BaseException"},
      AttributeError |-> {"Exception", "BaseException"},
      BaseException |-> {},
      KeyboardInterrupt |-> {"BaseException"},
      SystemExit |-> {"BaseException"},
      GeneratorExit |-> {"BaseException"},
      BaseExceptionGroup |-> {"BaseException"},
      CancelledError |-> {"BaseException"} ]

\* "except cls" takes an exception of class kind
Catches(cls, kind) == kind = cls \/ cls \in Bases[kind]

\* the class is Exception or derives from it
IsException(kind) == Catches("Exception", kind)

\* neither handler of lines 148-153 takes the exception and the interpreter
\* ends the process: SystemExit silently with the low byte of its status,
\* KeyboardInterrupt with a traceback and by SIGINT, anything else with a
\* traceback and 1
Uncaught(exc) ==
    IF exc.kind = "SystemExit"
      THEN /\ Exit(exc.code % 256)
           /\ UNCHANGED stderr
      ELSE /\ Exit(IF exc.kind = "KeyboardInterrupt" THEN 0 - 2 ELSE 1)
           /\ stderr' = Append(stderr, "Traceback: " \o exc.kind)

\* lines 145-153 with the handlers in the other order: DownloadError is an
\* Exception, so the first handler takes every Exception
HandleSwapped(exc) ==
    IF IsException(exc.kind) THEN OnException(exc.msg)
    ELSE IF Catches("DownloadError", exc.kind) THEN OnDownloadError(exc.msg)
    ELSE Uncaught(exc)

\* lines 145-153: the handler chosen for an exception raised in the try block
Handle(exc) ==
    IF Catches("DownloadError", exc.kind) THEN OnDownloadError(exc.msg)
    ELSE IF IsException(exc.kind) THEN OnException(exc.msg)
    ELSE Uncaught(exc)

\* the engine raises during extract_info
EngineRaises ==
    /\ pc = "in_engine"
    /\ \E exc \in EngineExceptions :
          /\ outcome' = exc
          /\ Handle(exc)
    /\ UNCHANGED <<argv, args, fs, ydl_opts, info, stdout, summary,
                   engineCalls, prepCalls, hookCalls, hookRaised, event, run,
                   mkdirLog>>

\* the exception of None.strip()
StripOfNone == [kind |-> "AttributeError",
                msg |-> "'NoneType' object has no attribute 'strip'",
                code |-> 0]

\* the engine calls progress_hook during extract_info; an exception of the
\* hook either comes out of extract_info or is swallowed by the engine
EngineProgress ==
    /\ pc = "in_engine"
    /\ hookCalls < MaxHookCalls
    /\ \E d \in MainEvents :
         LET r == progress_hook(d) IN
         /\ event' = Some(d)
         /\ hookCalls' = hookCalls + 1
         /\ stdout' = stdout \o r.out
         /\ hookRaised' = (hookRaised \/ r.raised)
         /\ \/ /\ r.raised
               /\ outcome' = StripOfNone
               /\ Handle(StripOfNone)
            \/ UNCHANGED <<pc, exitStatus, stderr, outcome>>
    /\ UNCHANGED <<argv, args, fs, ydl_opts, info, summary, engineCalls,
                   prepCalls, run, mkdirLog>>

\* line 147: extract_info returns
EngineReturns ==
    /\ pc = "in_engine"
    /\ \E res \in Results :
         /\ info' = res
         /\ outcome' = Returned
         /\ pc' = "summary"
    /\ UNCHANGED <<argv, args, fs, ydl_opts, stdout, stderr, summary,
                   exitStatus, engineCalls, prepCalls, hookCalls, hookRaised,
                   event, run, mkdirLog>>

\* lines 155-170, and the normal end of the process
Summarize ==
    /\ pc = "summary"
    /\ summary' = PrintSummary(info)
    /\ stdout' = stdout \o PrintSummary(info)
    /\ prepCalls' = prepCalls + SummarizeCalls(info)
    /\ Exit(0)
    /\ UNCHANGED <<argv, args, fs, ydl_opts, info, stderr, engineCalls,
                   hookCalls, hookRaised, event, outcome, run, mkdirLog>>

\* the program is started again with the same command line
Restart ==
    /\ pc = "exited"
    /\ run < MaxRuns
    /\ run' = run + 1
    /\ pc' = "start"
    /\ args' = None
    /\ ydl_opts' = None
    /\ info' = None
    /\ stdout' = <<>>
    /\ stderr' = <<>>
    /\ summary' = <<>>
    /\ exitStatus' = None
    /\ engineCalls' = 0
    /\ prepCalls' = 0
    /\ hookCalls' = 0
    /\ hookRaised' = FALSE
    /\ event' = None
    /\ outcome' = NoOutcome
    /\ UNCHANGED <<argv, fs, mkdirLog>>

\* the engine calls progress_hook with any event
HookCall ==
    /\ pc = "start"
    /\ hookCalls < MaxHookCalls
    /\ ~hookRaised
    /\ \E d \in ProgressEvents :
         LET r == progress_hook(d) IN
         /\ event' = Some(d)
         /\ hookCalls' = hookCalls + 1
         /\ stdout' = stdout \o r.out
         /\ hookRaised' = r.raised
    /\ UNCHANGED <<pc, argv, args, fs, ydl_opts, info, stderr, summary,
                   exitStatus, engineCalls, prepCalls, outcome, run, mkdirLog>>

----------------------------------------------------------------------------
(* Specifications *)

Next ==
    \/ ParseArgs
    \/ EnsureDir
    \/ BuildOpts
    \/ CallEngine
    \/ EngineProgress
    \/ EngineRaises
    \/ EngineReturns
    \/ Summarize
    \/ Restart

Spec == Init /\ [][Next]_vars

NextBuild ==
    \/ ParseArgs
    \/ EnsureDir
    \/ BuildOpts

SpecBuild == InitBuild /\ [][NextBuild]_vars

NextHook == HookCall

SpecHook == InitHook /\ [][NextHook]_vars

----------------------------------------------------------------------------
(* Properties of build_opts, checked under SpecBuild *)

Built == ydl_opts # None
Opts == ydl_opts[1]
VideoMode == ~argv.audio

\* the decimal numerals of the integers the command lines carry
Decimal(n) == CASE n = 0 - 1 -> "-1" [] n = 0 -> "0" [] n = 5 -> "5"
                [] n = 128 -> "128" [] n = 720 -> "720" [] n = 1080 -> "1080"

NoCapFormat == "bestvideo[ext=mp4]+bestaudio[ext=m4a]/best[ext=mp4]/best"
CapFormat(h) == "bestvideo[ext=mp4][height<=" \o h
                \o "]+bestaudio[ext=m4a]/best[ext=mp4]/best"

\* C1: in video mode the format expression is the no-cap string when no
\* resolution is given and only then; with a resolution H, for every integer
\* H that -r accepts, it is the height-capped string with H substituted.
C1_VideoFormatExact ==
    (Built /\ VideoMode) =>
        Opts.format = IF argv.resolution = None
                        THEN NoCapFormat
                        ELSE CapFormat(Decimal(argv.resolution[1]))

\* the steps the engine applies: the list under "postprocessors", no step
\* when the key is missing
Steps == Get(Opts, "postprocessors", <<>>)
StepKeys == [i \in DOMAIN Steps |-> Steps[i].key]
Codec == IF argv.audio_format = None THEN "mp3" ELSE argv.audio_format[1]
Quality == IF argv.audio_quality = None THEN "0"
           ELSE Decimal(argv.audio_quality[1])
Wanted(k) == \/ k = "FFmpegExtractAudio" /\ argv.audio
             \/ k = "FFmpegMetadata" /\ argv.embed_meta
             \/ k = "EmbedThumbnail" /\ argv.embed_thumb

\* C2: the post-processing steps are audio extraction (audio mode only, with
\* the configured codec and quality), then metadata embedding (if asked),
\* then thumbnail embedding (if asked), and nothing else; an unset flag omits
\* its step and leaves the order of the others.
C2_StepListExact ==
    Built =>
      /\ StepKeys = SelectSeq(<<"FFmpegExtractAudio", "FFmpegMetadata",
                                "EmbedThumbnail">>, Wanted)
      /\ argv.audio =>
            Steps[1] = [key |-> "FFmpegExtractAudio",
                        preferredcodec |-> Codec,
                        preferredquality |-> Quality]
      /\ \A i \in DOMAIN Steps :
            Steps[i].key # "FFmpegExtractAudio" => DOMAIN Steps[i] = {"key"}
      /\ VideoMode => \A i \in DOMAIN Steps : Steps[i].key # "FFmpegExtractAudio"

\* the example of the specification: flac, metadata, no thumbnail
C2_Witness ==
    /\ Built /\ argv.audio /\ argv.embed_meta /\ ~argv.embed_thumb
    /\ argv.audio_format = Some("flac") /\ argv.audio_quality = None
    /\ Steps = << [key |-> "FFmpegExtractAudio", preferredcodec |-> "flac",
                   preferredquality |-> "0"],
                  [key |-> "FFmpegMetadata"] >>

RetryOption == IF argv.retries = None THEN 5 ELSE argv.retries[1]
TimeoutOption == IF argv.timeout = None THEN 30 ELSE argv.timeout[1]

\* C7: in both modes the three retry counts equal the retry option and the
\* socket timeout equals the timeout option.
C7_RetryFanOut ==
    Built =>
      /\ Opts.retries = RetryOption
      /\ Opts.file_access_retries = RetryOption
      /\ Opts.fragment_retries = RetryOption
      /\ Opts.socket_timeout = TimeoutOption

C7_Witness ==
    /\ Built /\ argv.audio /\ argv.retries = Some(10) /\ argv.timeout = Some(10)
    /\ argv.embed_thumb /\ argv.resolution = Some(720)
    /\ Opts.fragment_retries = 10 /\ Opts.socket_timeout = 10

\* C9: the mode alone selects the branch: in audio mode, whatever the
\* resolution, the format is "bestaudio/best" and there is no merge container
\* hint; in video mode (also when neither --audio nor --video is given) the
\* hint is "mp4".
C9_ModeSelectsBranch ==
    Built =>
      /\ argv.audio => /\ Opts.format = "bestaudio/best"
                       /\ "merge_output_format" \notin DOMAIN Opts
      /\ VideoMode => /\ "merge_output_format" \in DOMAIN Opts
                      /\ Opts.merge_output_format = "mp4"

C9_Witness ==
    /\ Built /\ argv.audio /\ argv.resolution = Some(720)
    /\ Opts.format = "bestaudio/best"
    /\ "merge_output_format" \notin DOMAIN Opts

\* C10: every configuration build_opts produces has the certificate check
\* switched off.
C10_CertCheckDisabled ==
    Built => Opts.nocheckcertificate = TRUE

C10_Witness ==
    /\ Built /\ ~argv.quiet /\ VideoMode /\ ~argv.video
    /\ Opts.nocheckcertificate

----------------------------------------------------------------------------
(* Properties of progress_hook, checked under SpecHook *)

\* C5: progress_hook never raises, whatever event it is given, and an event
\* whose status is neither "downloading" nor "finished" prints nothing.
C5_HookNeverRaises ==
    /\ ~hookRaised
    /\ (hookCalls = 1
        /\ Get(event[1], "status", None)
             \notin {Some("downloading"), Some("finished")}) => stdout = <<>>

----------------------------------------------------------------------------
(* Properties of main, checked under Spec *)

Exited == pc = "exited"
ReachedEngine == engineCalls > 0
Failed == outcome.kind \notin {"none", "returned"}

EndsAsDownloadError ==
    /\ outcome.kind = "DownloadError"
    /\ stderr = <<"\nDownloadError: " \o outcome.msg \o "\n">>
    /\ exitStatus = Some(1)
    /\ summary = <<>>
EndsAsUnexpected ==
    /\ stderr = <<"\nUnexpected error: " \o outcome.msg \o "\n">>
    /\ exitStatus = Some(1)
    /\ summary = <<>>
EndsWithSummary ==
    /\ outcome.kind = "returned"
    /\ stderr = <<>>
    /\ exitStatus = Some(0)
    /\ summary # <<>>
    /\ info = None => summary = <<"Nothing was downloaded.\n">>
EndsUnhandled ==
    /\ summary = <<>>
    /\ prepCalls = 0
    /\ \/ outcome.kind = "SystemExit"
          /\ stderr = <<>>
          /\ exitStatus = Some(CASE outcome.code = 0 - 1 -> 255
                                 [] outcome.code = 256 -> 0
                                 [] OTHER -> outcome.code)
       \/ outcome.kind = "KeyboardInterrupt"
          /\ stderr = <<"Traceback: KeyboardInterrupt">>
          /\ exitStatus = Some(0 - 2)
       \/ outcome.kind \in {"GeneratorExit", "BaseException"}
          /\ stderr = <<"Traceback: " \o outcome.kind>>
          /\ exitStatus = Some(1)

\* C3 as stated: a run that reaches the engine call ends in exactly one of
\* three ways: the engine raised DownloadError, a download error with its
\* message is reported and the status is 1; the engine raised anything else,
\* an unexpected error is reported and the status is 1; the engine returned,
\* the result (also None) goes to the summary and the status is 0.
C3_OutcomeClassified ==
    (Exited /\ ReachedEngine) =>
      \/ EndsAsDownloadError
      \/ outcome.kind \notin {"DownloadError", "returned", "none"}
         /\ EndsAsUnexpected
      \/ EndsWithSummary

\* C3 as amended: the three ways cover the runs in which the engine call
\* returns or raises an Exception; an exception outside the Exception
\* hierarchy passes both handlers, main reports nothing and prints no
\* summary, and the interpreter ends the process.
C3_OutcomeClassifiedCaught ==
    (Exited /\ ReachedEngine) =>
      IF outcome.kind = "returned" THEN EndsWithSummary
      ELSE IF outcome.kind = "DownloadError" THEN EndsAsDownloadError
      ELSE IF outcome.kind \in {"ValueError", "AttributeError"}
        THEN EndsAsUnexpected
      ELSE EndsUnhandled

C3_Witness ==
    /\ Exited /\ ReachedEngine
    /\ outcome.kind = "DownloadError" /\ outcome.msg = "Video unavailable"
    /\ stderr = <<"\nDownloadError: Video unavailable\n">>
    /\ exitStatus = Some(1)

Present(es) == SelectSeq(es, LAMBDA e : e # None)
Block(e) == "Saved: " \o (IF "title" \in DOMAIN e THEN e.title ELSE "Unknown Title")
            \o "\n -> " \o prepare_filename(e) \o "\n"
InfoEntries == IF "entries" \in DOMAIN info[1] THEN info[1].entries ELSE <<>>

\* C4: the summary of an absent result is the line "Nothing was downloaded.";
\* of a single item, one "Saved: title" block with the path the engine
\* resolved; of a collection of n items of which k are absent, one header
\* with the collection title (a placeholder when untitled) and then n-k
\* blocks, one per present item in order.
C4_SummaryShape ==
    (Exited /\ outcome.kind = "returned") =>
      IF info = None THEN summary = <<"Nothing was downloaded.\n">>
      ELSE IF IsPlaylist(info[1])
        THEN /\ Len(summary) = 1 + Len(Present(InfoEntries))
             /\ summary[1] = "\nPlaylist: "
                    \o (IF "title" \in DOMAIN info[1] THEN info[1].title
                                                      ELSE "(unknown)")
                    \o "\n"
             /\ \A j \in 1..Len(Present(InfoEntries)) :
                   summary[j + 1] = Block(Present(InfoEntries)[j][1])
      ELSE summary = <<"\n" \o Block(info[1])>>

\* one absent item among three: a header and two blocks
C4_Witness ==
    /\ Exited /\ outcome.kind = "returned" /\ info # None
    /\ IsPlaylist(info[1])
    /\ InfoEntries = <<Some([id |-> "a", title |-> "T1"]), None, Some([id |-> "b"])>>
    /\ summary = << "\nPlaylist: (unknown)\n",
                    "Saved: T1\n -> downloads/a.mp4\n",
                    "Saved: Unknown Title\n -> downloads/b.mp4\n" >>

ThisRunMkdir == {i \in DOMAIN mkdirLog : mkdirLog[i].run = run}
DirEnsured == \E i \in ThisRunMkdir :
                 /\ mkdirLog[i].raised = "none"
                 /\ Ancestors(Canon(mkdirLog[i].path)) \subseteq fs.dirs
SetupFailed == ParseError(argv) \/ \E i \in ThisRunMkdir : mkdirLog[i].raised # "none"

OrderingOfMain ==
    /\ engineCalls <= 1
    /\ ReachedEngine => DirEnsured /\ Built
    /\ (summary # <<>> \/ prepCalls > 0) => outcome.kind = "returned"
    /\ Failed => summary = <<>> /\ prepCalls = 0 /\ Exited

\* C6 as stated: in every run of main the engine is invoked exactly once,
\* only after the output directory is ensured and the configuration built;
\* the summary runs only after the call returned; after a failure nothing
\* is summarised and no file name is resolved.
C6_EveryRunCallsEngineOnce ==
    /\ OrderingOfMain
    /\ Exited => engineCalls = 1

\* C6 as amended: the engine is invoked at most once, exactly once in the
\* runs whose command line argparse accepts and whose mkdir does not raise,
\* and never in the others; the ordering is as stated.
C6_EngineOnceAfterSetup ==
    /\ OrderingOfMain
    /\ Exited => (engineCalls = 1 <=> ~SetupFailed)

C6_Witness ==
    /\ Exited /\ engineCalls = 1 /\ outcome.kind = "DownloadError"
    /\ DirEnsured /\ Built /\ summary = <<>> /\ prepCalls = 0

\* the files the walk along the path meets, the path itself included
Met(path) == {Canon(q) : q \in Prefixes(path)}
Blocked(e) == Met(e.path) \cap e.before.files # {}

\* C8 as stated: from any file system, the mkdir step of a first and of a
\* second run on the same output path does not fail, the output directory
\* and its parents exist afterwards, and the second run leaves the set of
\* directories as it was.
C8_MkdirNeverFails ==
    \A i \in DOMAIN mkdirLog :
        /\ mkdirLog[i].raised = "none"
        /\ Ancestors(Canon(mkdirLog[i].path)) \subseteq mkdirLog[i].after.dirs
        /\ i > 1 => mkdirLog[i].after.dirs = mkdirLog[i].before.dirs

\* C8 as amended: the mkdir step raises exactly when the path or a
\* component met on the way to it exists as a file; otherwise it returns,
\* whatever part of the path already exists as directories, and the output
\* directory and its parents exist afterwards; the step only ever adds
\* directories of the path (also when it raises after creating some); a
\* second run on the same path ends as the first did and changes nothing.
C8_MkdirIdempotent ==
    \A i \in DOMAIN mkdirLog :
        LET e == mkdirLog[i] IN
        /\ e.raised # "none" <=> Blocked(e)
        /\ e.raised \in {"none", "FileExistsError", "NotADirectoryError"}
        /\ e.raised = "none" =>
              Ancestors(Canon(e.path)) \subseteq e.after.dirs
        /\ e.before.dirs \subseteq e.after.dirs
        /\ e.after.dirs \ e.before.dirs \subseteq Met(e.path)
        /\ e.after.files = e.before.files
        /\ i > 1 => /\ e.after = e.before
                    /\ e.raised = mkdirLog[i - 1].raised

\* the first run creates the directory and a parent, the second finds them
C8_Witness ==
    /\ Len(mkdirLog) = 2
    /\ mkdirLog[1].path = Home \o <<"Music", "yt", "..", "deep">>
    /\ Music \notin mkdirLog[1].before.dirs
    /\ mkdirLog[1].raised = "none"
    /\ {Music, MusicYt, MusicDeep} \subseteq mkdirLog[1].after.dirs
    /\ mkdirLog[2].raised = "none"
    /\ mkdirLog[2].after = mkdirLog[1].after

====
